---- MODULE Spec2Model ----
(***************************************************************************)
(* A model of egui_dock's src/style.rs: the Style value and its builder,   *)
(* the split resolvers Style::hsplit / Style::vsplit and the tab header    *)
(* routine Style::tab_title.                                               *)
(*                                                                         *)
(* f32 values are modelled as exact rationals <<n, d>> in lowest terms     *)
(* (d > 0), extended with the IEEE-754 special values the code can         *)
(* produce by dividing by a zero extent: <<1, 0>> is +inf, <<-1, 0>> is    *)
(* -inf and <<0, 0>> is NaN.  Rounding error of f32 is not modelled.       *)
(***************************************************************************)
EXTENDS Integers, Sequences, FiniteSets, TLC

VARIABLES
    style,      \* the Style the split resolver / tab header is called on
    fraction,   \* the caller-owned split fraction (&mut f32)
    last,       \* inputs and outputs of the latest hsplit / vsplit call
    zeroSeen,   \* history: some call so far had a rect of zero extent
    stage,      \* where the construction of a Style stands
    builder,    \* the StyleBuilder of the running chain, and its length so far
    built,      \* the Style last returned by build() or from_egui()
    setLog,     \* history: field -> argument of the last setter applied to it
    tab         \* inputs and outputs of the latest tab_title call

vars == <<style, fraction, last, zeroSeen, stage, builder, built, setLog, tab>>

(***************************************************************************)
(* f32 arithmetic                                                          *)
(***************************************************************************)
Abs(i) == IF i < 0 THEN -i ELSE i

Sign(i) == IF i < 0 THEN -1 ELSE IF i > 0 THEN 1 ELSE 0

RECURSIVE GCD(_, _)
GCD(a, b) == IF b = 0 THEN a ELSE GCD(b, a % b)

Norm(n, d) ==
    IF d = 1 THEN <<n, 1>>
    ELSE IF d = 0 THEN <<Sign(n), 0>>
    ELSE LET g == GCD(Abs(n), Abs(d))
             s == IF d < 0 THEN -1 ELSE 1
         IN  <<(s * n) \div g, (s * d) \div g>>

F(i) == <<i, 1>>

NaN == <<0, 0>>
INFINITY == <<1, 0>>
NEG_INFINITY == <<-1, 0>>
Zero == <<0, 1>>
One == <<1, 1>>
Half == <<1, 2>>

IsNaN(a) == a = NaN
IsFinite(a) == a[2] # 0

FNeg(a) == <<-a[1], a[2]>>

FAdd(a, b) ==
    IF IsNaN(a) \/ IsNaN(b) THEN NaN
    ELSE IF a[2] = 0 /\ b[2] = 0 THEN (IF a = b THEN a ELSE NaN)
    ELSE IF a[2] = 0 THEN a
    ELSE IF b[2] = 0 THEN b
    ELSE Norm(a[1] * b[2] + b[1] * a[2], a[2] * b[2])

FSub(a, b) == FAdd(a, FNeg(b))

FMul(a, b) ==
    IF IsNaN(a) \/ IsNaN(b) THEN NaN ELSE Norm(a[1] * b[1], a[2] * b[2])

\* a / b; a finite non-zero value over (positive) zero is an infinity, 0/0 is NaN
FDiv(a, b) ==
    IF IsNaN(a) \/ IsNaN(b) THEN NaN ELSE Norm(a[1] * b[2], a[2] * b[1])

\* a < b as f32 compares: FALSE when either side is NaN
FLt(a, b) ==
    IF IsNaN(a) \/ IsNaN(b) THEN FALSE
    ELSE IF a[2] = 0 /\ b[2] = 0 THEN a[1] < b[1]
    ELSE IF a[2] = 0 THEN a[1] < 0
    ELSE IF b[2] = 0 THEN b[1] > 0
    ELSE a[1] * b[2] < b[1] * a[2]

FLe(a, b) == ~IsNaN(a) /\ ~IsNaN(b) /\ (a = b \/ FLt(a, b))

\* f32::min / f32::max: a NaN operand is ignored
FMin(a, b) == IF IsNaN(a) THEN b ELSE IF IsNaN(b) THEN a ELSE IF FLt(b, a) THEN b ELSE a

FMax(a, b) == IF IsNaN(a) THEN b ELSE IF IsNaN(b) THEN a ELSE IF FLt(a, b) THEN b ELSE a

\* f32::round: to the nearest integer, halves away from zero
FRound(a) ==
    IF a[2] = 0 THEN a
    ELSE IF a[1] >= 0 THEN F((2 * a[1] + a[2]) \div (2 * a[2]))
    ELSE F(-((2 * (-a[1]) + a[2]) \div (2 * a[2])))

\* f32::clamp panics unless min <= max; NaN is passed through
ClampPanics(min, max) == ~FLe(min, max)

FClamp(x, min, max) == IF FLt(x, min) THEN min ELSE IF FLt(max, x) THEN max ELSE x

(***************************************************************************)
(* egui geometry as style.rs uses it                                       *)
(***************************************************************************)
Rect(x0, y0, x1, y1) == [min |-> [x |-> x0, y |-> y0], max |-> [x |-> x1, y |-> y1]]

EVERYTHING == Rect(NEG_INFINITY, NEG_INFINITY, INFINITY, INFINITY)

everything_right_of(left_x) == [EVERYTHING EXCEPT !.min.x = left_x]

everything_left_of(right_x) == [EVERYTHING EXCEPT !.max.x = right_x]

everything_below(top_y) == [EVERYTHING EXCEPT !.min.y = top_y]

everything_above(bottom_y) == [EVERYTHING EXCEPT !.max.y = bottom_y]

intersect(a, b) ==
    [min |-> [x |-> FMax(a.min.x, b.min.x), y |-> FMax(a.min.y, b.min.y)],
     max |-> [x |-> FMin(a.max.x, b.max.x), y |-> FMin(a.max.y, b.max.y)]]

width(r) == FSub(r.max.x, r.min.x)

height(r) == FSub(r.max.y, r.min.y)

\* utils::map_to_pixel(point, pixels_per_point, map) with map = f32::round
map_to_pixel(point, pixels_per_point) ==
    FDiv(FRound(FMul(point, pixels_per_point)), pixels_per_point)

(***************************************************************************)
(* Style::hsplit                                                           *)
(***************************************************************************)
\* the separator strip registered with ui.allocate_rect before the drag is read
hsplit_allocate(self, fraction0, rect) ==
    LET midpoint == FAdd(rect.min.x, FMul(width(rect), fraction0))
    IN  [rect EXCEPT !.min.x = FSub(midpoint, FMul(self.separator_width, Half)),
                     !.max.x = FAdd(midpoint, FMul(self.separator_width, Half))]

hsplit_clamp_unsymmetrized(self, drag_delta, fraction0, rect) ==
    LET delta == drag_delta.x
        range == FSub(rect.max.x, rect.min.x)
        min == FMin(FDiv(self.separator_extra, range), One)
        max == FSub(One, min)
    IN  [min |-> min, max |-> max, panicked |-> ClampPanics(min, max),
         fraction |-> FClamp(FAdd(fraction0, FDiv(delta, range)), min, max)]

hsplit_clamp_unclamped(self, drag_delta, fraction0, rect) ==
    LET delta == drag_delta.x
        range == FSub(rect.max.x, rect.min.x)
        min0 == FMin(FDiv(self.separator_extra, range), One)
        max0 == FSub(One, min0)
    IN  [min |-> FMin(min0, max0), max |-> FMax(max0, min0), panicked |-> FALSE,
         fraction |-> FAdd(fraction0, FDiv(delta, range))]

\* the block that reads the drag and clamps *fraction
hsplit_clamp(self, drag_delta, fraction0, rect) ==
    LET delta == drag_delta.x
        range == FSub(rect.max.x, rect.min.x)
        min0 == FMin(FDiv(self.separator_extra, range), One)
        max0 == FSub(One, min0)
        min == FMin(min0, max0)
        max == FMax(max0, min0)
    IN  [min |-> min, max |-> max, panicked |-> ClampPanics(min, max),
         fraction |-> FClamp(FAdd(fraction0, FDiv(delta, range)), min, max)]

\* the separator recomputed from the updated fraction and snapped to pixels
hsplit_separator(self, pixels_per_point, fraction1, rect) ==
    LET midpoint == FAdd(rect.min.x, FMul(width(rect), fraction1))
    IN  [rect EXCEPT
            !.min.x = map_to_pixel(FSub(midpoint, FMul(self.separator_width, Half)),
                                   pixels_per_point),
            !.max.x = map_to_pixel(FAdd(midpoint, FMul(self.separator_width, Half)),
                                   pixels_per_point)]

hsplit_regions_overlapping(rect, separator) ==
    <<intersect(rect, everything_right_of(separator.min.x)),
      separator,
      intersect(rect, everything_left_of(separator.min.x))>>

\* the returned tuple
hsplit_regions(rect, separator) ==
    <<intersect(rect, everything_right_of(separator.max.x)),
      separator,
      intersect(rect, everything_left_of(separator.min.x))>>

hsplit(self, ui, fraction0, rect) ==
    LET c == hsplit_clamp(self, ui.drag_delta, fraction0, rect)
        separator == hsplit_separator(self, ui.pixels_per_point, c.fraction, rect)
    IN  [fraction |-> c.fraction, min |-> c.min, max |-> c.max,
         panicked |-> c.panicked,
         allocated |-> hsplit_allocate(self, fraction0, rect),
         regions |-> hsplit_regions(rect, separator)]

(***************************************************************************)
(* Style::vsplit                                                           *)
(***************************************************************************)
vsplit_allocate(self, fraction0, rect) ==
    LET midpoint == FAdd(rect.min.y, FMul(height(rect), fraction0))
    IN  [rect EXCEPT !.min.y = FSub(midpoint, FMul(self.separator_width, Half)),
                     !.max.y = FAdd(midpoint, FMul(self.separator_width, Half))]

vsplit_clamp(self, drag_delta, fraction0, rect) ==
    LET delta == drag_delta.y
        range == FSub(rect.max.y, rect.min.y)
        min0 == FMin(FDiv(self.separator_extra, range), One)
        max0 == FSub(One, min0)
        min == FMin(min0, max0)
        max == FMax(max0, min0)
    IN  [min |-> min, max |-> max, panicked |-> ClampPanics(min, max),
         fraction |-> FClamp(FAdd(fraction0, FDiv(delta, range)), min, max)]

vsplit_separator(self, pixels_per_point, fraction1, rect) ==
    LET midpoint == FAdd(rect.min.y, FMul(height(rect), fraction1))
    IN  [rect EXCEPT
            !.min.y = map_to_pixel(FSub(midpoint, FMul(self.separator_width, Half)),
                                   pixels_per_point),
            !.max.y = map_to_pixel(FAdd(midpoint, FMul(self.separator_width, Half)),
                                   pixels_per_point)]

vsplit_regions(rect, separator) ==
    <<intersect(rect, everything_above(separator.min.y)),
      separator,
      intersect(rect, everything_below(separator.max.y))>>

vsplit(self, ui, fraction0, rect) ==
    LET c == vsplit_clamp(self, ui.drag_delta, fraction0, rect)
        separator == vsplit_separator(self, ui.pixels_per_point, c.fraction, rect)
    IN  [fraction |-> c.fraction, min |-> c.min, max |-> c.max,
         panicked |-> c.panicked,
         allocated |-> vsplit_allocate(self, fraction0, rect),
         regions |-> vsplit_regions(rect, separator)]

(***************************************************************************)
(* Style, Style::default, Style::from_egui and StyleBuilder                *)
(***************************************************************************)
\* a Color32: a named colour and the number of times linear_multiply(0.5)
\* was applied to it
Color32(name) == [name |-> name, halved |-> 0]

linear_multiply_half(c) == [c EXCEPT !.halved = c.halved + 1]

\* Option<T>
None == <<>>
Some(v) == <<v>>

DEFAULT_SEPARATOR_WIDTH == 1
DEFAULT_SEPARATOR_EXTRA == 175

StyleFields ==
    {"padding", "border_color", "border_width", "selection_color",
     "separator_width", "separator_extra", "separator_color",
     "tab_bar_background_color", "tab_outline_color", "tab_rounding",
     "tab_background_color", "tab_text_color_unfocused",
     "tab_text_color_focused", "close_tab_color", "close_tab_active_color",
     "close_tab_background_color", "show_close_buttons"}

\* impl Default for Style
Style_default ==
    [padding |-> None,
     border_color |-> Color32("BLACK"),
     border_width |-> Zero,
     selection_color |-> linear_multiply_half(Color32("rgb(0,191,255)")),
     separator_width |-> F(DEFAULT_SEPARATOR_WIDTH),
     separator_extra |-> F(DEFAULT_SEPARATOR_EXTRA),
     separator_color |-> Color32("BLACK"),
     tab_bar_background_color |-> Color32("WHITE"),
     tab_outline_color |-> Color32("BLACK"),
     tab_rounding |-> Zero,
     tab_background_color |-> Color32("WHITE"),
     tab_text_color_unfocused |-> Color32("DARK_GRAY"),
     tab_text_color_focused |-> Color32("BLACK"),
     close_tab_color |-> Color32("WHITE"),
     close_tab_active_color |-> Color32("WHITE"),
     close_tab_background_color |-> Color32("GRAY"),
     show_close_buttons |-> TRUE]

\* Style::from_egui(style): eleven fields are given, the rest is ..Self::default()
from_egui(egui) ==
    [Style_default EXCEPT
        !.selection_color = linear_multiply_half(egui.selection_bg_fill),
        !.tab_bar_background_color = egui.faint_bg_color,
        !.tab_outline_color = egui.widgets_active_bg_fill,
        !.tab_background_color = egui.window_fill,
        !.tab_text_color_unfocused = egui.text_color,
        !.tab_text_color_focused = egui.strong_text_color,
        !.separator_color = egui.widgets_active_bg_fill,
        !.border_color = egui.widgets_active_bg_fill,
        !.close_tab_background_color = egui.widgets_active_bg_fill,
        !.close_tab_color = egui.text_color,
        !.close_tab_active_color = egui.strong_text_color]

\* StyleBuilder::new(): #[derive(Default)] over the one field `style`
StyleBuilder_new == Style_default

with_padding(self, v) == [self EXCEPT !.padding = v]

with_border_color(self, v) == [self EXCEPT !.border_color = v]

with_border_width(self, v) == [self EXCEPT !.border_width = v]

with_selection_color(self, v) == [self EXCEPT !.selection_color = v]

with_separator_width(self, v) == [self EXCEPT !.separator_width = v]

with_separator_extra(self, v) == [self EXCEPT !.separator_extra = v]

with_separator_color(self, v) == [self EXCEPT !.separator_color = v]

with_tab_bar_background(self, v) == [self EXCEPT !.tab_bar_background_color = v]

with_tab_outline_color(self, v) == [self EXCEPT !.tab_outline_color = v]

with_tab_rounding(self, v) == [self EXCEPT !.tab_rounding = v]

with_tab_background_color(self, v) == [self EXCEPT !.tab_background_color = v]

with_close_tab_color_wrong_field(self, v) == [self EXCEPT !.close_tab_active_color = v]

with_close_tab_color(self, v) == [self EXCEPT !.close_tab_color = v]

with_close_tab_active_color_color(self, v) == [self EXCEPT !.close_tab_active_color = v]

with_close_tab_background_color_color(self, v) == [self EXCEPT !.close_tab_background_color = v]

show_close_buttons(self, v) == [self EXCEPT !.show_close_buttons = v]

\* StyleBuilder::build(self)
build(self) == self

(***************************************************************************)
(* Style::tab_title                                                        *)
(***************************************************************************)
X_TEXT_GAP == 5
OFFSET_X == 8
HEADER_HEIGHT == 24

\* Rect::contains, as the interaction surface decides hover; pointer is an
\* Option<Pos2>
contains(r, pointer) ==
    /\ pointer # None
    /\ FLe(r.min.x, pointer[1].x) /\ FLe(pointer[1].x, r.max.x)
    /\ FLe(r.min.y, pointer[1].y) /\ FLe(pointer[1].y, r.max.y)

\* x_size: the close glyph's box, galley.size().y / 1.3 on both axes
tab_title_x_size(galley) == FDiv(galley.size.y, <<13, 10>>)

\* desired_size of the header
tab_title_desired_size(self, galley) ==
    LET text_size == galley.size
        x0 == FAdd(text_size.x, FMul(F(OFFSET_X), F(2)))
    IN  [x |-> IF self.show_close_buttons
               THEN FAdd(x0, FAdd(tab_title_x_size(galley), F(X_TEXT_GAP)))
               ELSE x0,
         y |-> F(HEADER_HEIGHT)]

\* ui.allocate_at_least(desired_size, Sense::hover()): the header's rect at
\* the ui's cursor, and its response
allocate_at_least(ui, desired_size) ==
    LET rect == Rect(ui.cursor.x, ui.cursor.y,
                     FAdd(ui.cursor.x, desired_size.x),
                     FAdd(ui.cursor.y, desired_size.y))
    IN  [rect |-> rect, response |-> [rect |-> rect, hovered |-> contains(rect, ui.pointer)]]

\* ui.interact(x_rect, id, Sense::click())
interact(ui, x_rect, id) ==
    [id |-> id,
     rect |-> x_rect,
     hovered |-> contains(x_rect, ui.pointer),
     clicked |-> contains(x_rect, ui.pointer) /\ ui.button = "clicked",
     interact_pointer_pos |->
        IF contains(x_rect, ui.pointer) /\ ui.button = "down" THEN ui.pointer ELSE None]

tab_title_x_res_ignoring_style(self, ui, galley, active, rect, response, id) ==
    IF active \/ response.hovered
    THEN LET x_size == tab_title_x_size(galley)
             cx == FAdd(rect.min.x,
                        FAdd(F(OFFSET_X), FAdd(galley.size.x,
                             FAdd(F(X_TEXT_GAP), FDiv(x_size, F(2))))))
             cy == FAdd(rect.min.y, FDiv(height(rect), F(2)))
             x_rect == Rect(FSub(cx, FDiv(x_size, F(2))), FSub(cy, FDiv(x_size, F(2))),
                            FAdd(cx, FDiv(x_size, F(2))), FAdd(cy, FDiv(x_size, F(2))))
         IN  Some(interact(ui, x_rect, id))
    ELSE None

tab_title_x_res_active_only(self, ui, galley, active, rect, response, id) ==
    IF active /\ self.show_close_buttons
    THEN LET x_size == tab_title_x_size(galley)
             cx == FAdd(rect.min.x,
                        FAdd(F(OFFSET_X), FAdd(galley.size.x,
                             FAdd(F(X_TEXT_GAP), FDiv(x_size, F(2))))))
             cy == FAdd(rect.min.y, FDiv(height(rect), F(2)))
             x_rect == Rect(FSub(cx, FDiv(x_size, F(2))), FSub(cy, FDiv(x_size, F(2))),
                            FAdd(cx, FDiv(x_size, F(2))), FAdd(cy, FDiv(x_size, F(2))))
         IN  Some(interact(ui, x_rect, id))
    ELSE None

\* let (x_rect, x_res) = if (active || response.hovered()) && show_close_buttons
\* x_rect is x_res's rect; None stands for (Rect::NOTHING, None)
tab_title_x_res(self, ui, galley, active, rect, response, id) ==
    IF (active \/ response.hovered) /\ self.show_close_buttons
    THEN LET x_size == tab_title_x_size(galley)
             cx == FAdd(rect.min.x,
                        FAdd(F(OFFSET_X), FAdd(galley.size.x,
                             FAdd(F(X_TEXT_GAP), FDiv(x_size, F(2))))))
             cy == FAdd(rect.min.y, FDiv(height(rect), F(2)))
             x_rect == Rect(FSub(cx, FDiv(x_size, F(2))), FSub(cy, FDiv(x_size, F(2))),
                            FAdd(cx, FDiv(x_size, F(2))), FAdd(cy, FDiv(x_size, F(2))))
         IN  Some(interact(ui, x_rect, id))
    ELSE None

\* match (active, is_being_dragged): the header body's shapes
tab_title_body(active, is_being_dragged) ==
    IF active /\ ~is_being_dragged THEN <<"outline_fill", "background_fill">>
    ELSE IF active /\ is_being_dragged THEN <<"outline_stroke">>
    ELSE <<>>

\* override_text_color of the text shape
tab_title_text(self, galley, focused) ==
    IF galley.galley_has_color THEN <<[shape |-> "text", color |-> None]>>
    ELSE IF focused THEN <<[shape |-> "text", color |-> Some(self.tab_text_color_focused)]>>
    ELSE <<[shape |-> "text", color |-> Some(self.tab_text_color_unfocused)]>>

\* the close-button drawing block: whether it is entered, whether its unwrap
\* of x_res panics, and what it paints
tab_title_close(self, focused, active, response, x_res) ==
    LET entered == (active \/ response.hovered) /\ self.show_close_buttons
        panics == entered /\ x_res = None
        color == IF focused \/ x_res[1].interact_pointer_pos # None
                 THEN self.close_tab_active_color ELSE self.close_tab_color
    IN  [entered |-> entered,
         panicked |-> panics,
         shapes |->
            IF ~entered \/ panics THEN <<>>
            ELSE (IF x_res[1].hovered
                  THEN <<[shape |-> "close_background",
                          color |-> Some(self.close_tab_background_color)]>>
                  ELSE <<>>)
                 \o <<[shape |-> "line_segment", color |-> Some(color)],
                      [shape |-> "line_segment", color |-> Some(color)]>>]

\* match x_res { Some(some) => ..., None => (response, false, false) }
tab_title_return(response, x_res) ==
    IF x_res # None
    THEN [response |-> response, close_hovered |-> x_res[1].hovered,
          close_clicked |-> x_res[1].clicked]
    ELSE [response |-> response, close_hovered |-> FALSE, close_clicked |-> FALSE]

tab_title(self, ui, galley, focused, active, is_being_dragged, id) ==
    LET desired_size == tab_title_desired_size(self, galley)
        a == allocate_at_least(ui, desired_size)
        x_res == tab_title_x_res(self, ui, galley, active, a.rect, a.response, id)
        close == tab_title_close(self, focused, active, a.response, x_res)
    IN  [rect |-> a.rect,
         x_res |-> x_res,
         body |-> tab_title_body(active, is_being_dragged),
         text |-> tab_title_text(self, galley, focused),
         close |-> close,
         ret |-> tab_title_return(a.response, x_res)]

(***************************************************************************)
(* Bounds and the inputs drawn in the model                                *)
(***************************************************************************)
MaxPixelsPerPoint == 2
MaxSetters == 3
MaxTextWidth == 2

\* extents of the rect along the split axis; against the separator_extra of
\* SplitStyleArgs they are zero, below it, equal to it, between it and its
\* double, exactly its double and above its double
Extents == {0, 100, 200, 400}
Origins == {Zero, Half}
CrossExtent == F(300)
PixelsPerPoint == {F(k) : k \in 1..MaxPixelsPerPoint}
DragDeltas == {[x |-> F(0), y |-> F(0)], [x |-> F(200), y |-> F(-200)],
               [x |-> F(-200), y |-> F(200)]}
SplitStyleArgs == {<<F(DEFAULT_SEPARATOR_EXTRA), F(DEFAULT_SEPARATOR_WIDTH)>>,
                   <<F(0), F(DEFAULT_SEPARATOR_WIDTH)>>, <<F(100), F(2)>>}
InitFractions == {Zero, Half, One}

ColorArgs == {Color32("BLACK"), Color32("RED")}
F32Args == {F(0), F(3)}
PaddingArgs == {None, Some(F(4))}
EguiStyles ==
    [selection_bg_fill : ColorArgs, faint_bg_color : ColorArgs,
     widgets_active_bg_fill : ColorArgs, window_fill : ColorArgs,
     text_color : {Color32("DARK_GRAY"), Color32("RED")},
     strong_text_color : {Color32("BLACK"), Color32("RED")}]

Galleys ==
    {[size |-> [x |-> F(20 * k), y |-> F(13)], galley_has_color |-> c] :
        k \in 1..MaxTextWidth, c \in BOOLEAN}
Pointers ==
    {None, Some([x |-> F(10), y |-> F(12)]), Some([x |-> F(38), y |-> F(12)]),
     Some([x |-> F(58), y |-> F(9)]), Some([x |-> F(200), y |-> F(12)])}
Buttons == {"up", "down", "clicked"}

NoLog == [f \in StyleFields |-> None]

(***************************************************************************)
(* The split resolver, called once per frame on the caller's fraction.     *)
(* A call whose f32::clamp panics unwinds before *fraction is written.     *)
(***************************************************************************)
InitIdleStyle ==
    /\ stage = "idle"
    /\ builder = [style |-> Style_default, n |-> 0]
    /\ built = Style_default
    /\ setLog = NoLog

InitIdleSplit ==
    /\ fraction = Half
    /\ last = [op |-> "none"]
    /\ zeroSeen = FALSE

InitIdleTab == tab = [called |-> FALSE]

InitSplit ==
    /\ style \in {build(with_separator_width(
                            with_separator_extra(StyleBuilder_new, a[1]), a[2])) :
                    a \in SplitStyleArgs}
    /\ fraction \in InitFractions
    /\ last = [op |-> "none"]
    /\ zeroSeen = FALSE
    /\ InitIdleStyle
    /\ InitIdleTab

Hsplit(origin, extent, ui) ==
    LET rect == Rect(origin, Zero, FAdd(origin, F(extent)), CrossExtent)
    IN  \E out \in {hsplit(style, ui, fraction, rect)} :
            /\ fraction' = IF out.panicked THEN fraction ELSE out.fraction
            /\ last' = IF out.panicked
                       THEN [op |-> "panic"]
                       ELSE [op |-> "hsplit", rect |-> rect, ui |-> ui,
                             fraction_in |-> fraction, out |-> out]
            /\ zeroSeen' = (zeroSeen \/ extent = 0)
            /\ UNCHANGED <<style, stage, builder, built, setLog, tab>>

Vsplit(origin, extent, ui) ==
    LET rect == Rect(Zero, origin, CrossExtent, FAdd(origin, F(extent)))
    IN  \E out \in {vsplit(style, ui, fraction, rect)} :
            /\ fraction' = IF out.panicked THEN fraction ELSE out.fraction
            /\ last' = IF out.panicked
                       THEN [op |-> "panic"]
                       ELSE [op |-> "vsplit", rect |-> rect, ui |-> ui,
                             fraction_in |-> fraction, out |-> out]
            /\ zeroSeen' = (zeroSeen \/ extent = 0)
            /\ UNCHANGED <<style, stage, builder, built, setLog, tab>>

NextSplit ==
    \E origin \in Origins, extent \in Extents,
       ui \in [pixels_per_point : PixelsPerPoint, drag_delta : DragDeltas] :
        \/ Hsplit(origin, extent, ui)
        \/ Vsplit(origin, extent, ui)

SpecSplit == InitSplit /\ [][NextSplit]_vars

(***************************************************************************)
(* Building a Style                                                        *)
(***************************************************************************)
InitStyle ==
    /\ InitIdleStyle
    /\ style = Style_default
    /\ InitIdleSplit
    /\ InitIdleTab

UnchangedByStyle == UNCHANGED <<style, fraction, last, zeroSeen, tab>>

New ==
    /\ stage = "idle"
    /\ stage' = "building"
    /\ builder' = [style |-> StyleBuilder_new, n |-> 0]
    /\ setLog' = NoLog
    /\ UNCHANGED built
    /\ UnchangedByStyle

Set(field, s) ==
    /\ stage = "building"
    /\ builder.n < MaxSetters
    /\ builder' = [style |-> s, n |-> builder.n + 1]
    /\ UNCHANGED <<stage, built>>
    /\ UnchangedByStyle

WithPadding ==
    \E v \in PaddingArgs :
        /\ Set("padding", with_padding(builder.style, v))
        /\ setLog' = [setLog EXCEPT !["padding"] = Some(v)]

WithBorderColor ==
    \E v \in ColorArgs :
        /\ Set("border_color", with_border_color(builder.style, v))
        /\ setLog' = [setLog EXCEPT !["border_color"] = Some(v)]

WithBorderWidth ==
    \E v \in F32Args :
        /\ Set("border_width", with_border_width(builder.style, v))
        /\ setLog' = [setLog EXCEPT !["border_width"] = Some(v)]

WithSelectionColor ==
    \E v \in ColorArgs :
        /\ Set("selection_color", with_selection_color(builder.style, v))
        /\ setLog' = [setLog EXCEPT !["selection_color"] = Some(v)]

WithSeparatorWidth ==
    \E v \in F32Args :
        /\ Set("separator_width", with_separator_width(builder.style, v))
        /\ setLog' = [setLog EXCEPT !["separator_width"] = Some(v)]

WithSeparatorExtra ==
    \E v \in F32Args :
        /\ Set("separator_extra", with_separator_extra(builder.style, v))
        /\ setLog' = [setLog EXCEPT !["separator_extra"] = Some(v)]

WithSeparatorColor ==
    \E v \in ColorArgs :
        /\ Set("separator_color", with_separator_color(builder.style, v))
        /\ setLog' = [setLog EXCEPT !["separator_color"] = Some(v)]

WithTabBarBackground ==
    \E v \in ColorArgs :
        /\ Set("tab_bar_background_color", with_tab_bar_background(builder.style, v))
        /\ setLog' = [setLog EXCEPT !["tab_bar_background_color"] = Some(v)]

WithTabOutlineColor ==
    \E v \in ColorArgs :
        /\ Set("tab_outline_color", with_tab_outline_color(builder.style, v))
        /\ setLog' = [setLog EXCEPT !["tab_outline_color"] = Some(v)]

WithTabRounding ==
    \E v \in F32Args :
        /\ Set("tab_rounding", with_tab_rounding(builder.style, v))
        /\ setLog' = [setLog EXCEPT !["tab_rounding"] = Some(v)]

WithTabBackgroundColor ==
    \E v \in ColorArgs :
        /\ Set("tab_background_color", with_tab_background_color(builder.style, v))
        /\ setLog' = [setLog EXCEPT !["tab_background_color"] = Some(v)]

WithCloseTabColor ==
    \E v \in ColorArgs :
        /\ Set("close_tab_color", with_close_tab_color(builder.style, v))
        /\ setLog' = [setLog EXCEPT !["close_tab_color"] = Some(v)]

WithCloseTabActiveColorColor ==
    \E v \in ColorArgs :
        /\ Set("close_tab_active_color", with_close_tab_active_color_color(builder.style, v))
        /\ setLog' = [setLog EXCEPT !["close_tab_active_color"] = Some(v)]

WithCloseTabBackgroundColorColor ==
    \E v \in ColorArgs :
        /\ Set("close_tab_background_color", with_close_tab_background_color_color(builder.style, v))
        /\ setLog' = [setLog EXCEPT !["close_tab_background_color"] = Some(v)]

ShowCloseButtons ==
    \E v \in BOOLEAN :
        /\ Set("show_close_buttons", show_close_buttons(builder.style, v))
        /\ setLog' = [setLog EXCEPT !["show_close_buttons"] = Some(v)]

Build ==
    /\ stage = "building"
    /\ stage' = "built"
    /\ built' = build(builder.style)
    /\ UNCHANGED <<builder, setLog>>
    /\ UnchangedByStyle

FromEgui ==
    \E egui \in EguiStyles :
        /\ stage = "idle"
        /\ stage' = "from_egui"
        /\ built' = from_egui(egui)
        /\ UNCHANGED <<builder, setLog>>
        /\ UnchangedByStyle

NextStyle ==
    \/ New
    \/ WithPadding
    \/ WithBorderColor
    \/ WithBorderWidth
    \/ WithSelectionColor
    \/ WithSeparatorWidth
    \/ WithSeparatorExtra
    \/ WithSeparatorColor
    \/ WithTabBarBackground
    \/ WithTabOutlineColor
    \/ WithTabRounding
    \/ WithTabBackgroundColor
    \/ WithCloseTabColor
    \/ WithCloseTabActiveColorColor
    \/ WithCloseTabBackgroundColorColor
    \/ ShowCloseButtons
    \/ Build
    \/ FromEgui

SpecStyle == InitStyle /\ [][NextStyle]_vars

(***************************************************************************)
(* Tab headers, one call per frame                                         *)
(***************************************************************************)
InitTab ==
    /\ style \in {build(show_close_buttons(StyleBuilder_new, b)) : b \in BOOLEAN}
    /\ InitIdleTab
    /\ InitIdleSplit
    /\ InitIdleStyle

TabTitle ==
    \E galley \in Galleys, pointer \in Pointers, button \in Buttons,
       focused \in BOOLEAN, active \in BOOLEAN, is_being_dragged \in BOOLEAN :
        LET ui == [cursor |-> [x |-> Zero, y |-> Zero], pointer |-> pointer,
                   button |-> button]
        IN  /\ tab' = [called |-> TRUE, ui |-> ui, galley |-> galley,
                       focused |-> focused, active |-> active,
                       is_being_dragged |-> is_being_dragged,
                       out |-> tab_title(style, ui, galley, focused, active,
                                         is_being_dragged, "tab")]
            /\ UNCHANGED <<style, fraction, last, zeroSeen, stage, builder, built, setLog>>

NextTab == TabTitle

SpecTab == InitTab /\ [][NextTab]_vars

(***************************************************************************)
(* What the properties below read off the latest split call                *)
(***************************************************************************)
SplitCalled == last.op \in {"hsplit", "vsplit"}

Horizontal == last.op = "hsplit"

\* a region's interval along the split axis of the latest call
AxisMin(r) == IF Horizontal THEN r.min.x ELSE r.min.y
AxisMax(r) == IF Horizontal THEN r.max.x ELSE r.max.y
AxisExtent(r) == FSub(AxisMax(r), AxisMin(r))

LastExtent == AxisExtent(last.rect)
LastDelta == IF Horizontal THEN last.ui.drag_delta.x ELSE last.ui.drag_delta.y
Extra == style.separator_extra
TwiceExtra == FMul(F(2), Extra)

\* m, lo and hi as the claims define them
BoundM == FMin(FDiv(Extra, LastExtent), One)
BoundLo == FMin(BoundM, FSub(One, BoundM))
BoundHi == FMax(BoundM, FSub(One, BoundM))

\* the two panes: hsplit returns (right, separator, left), vsplit returns
\* (above, separator, below)
Panes == {last.out.regions[1], last.out.regions[3]}

HalfPixel == FDiv(Half, last.ui.pixels_per_point)
HalfSeparator == FMul(style.separator_width, Half)

WellFormed(r) == FLe(r.min.x, r.max.x) /\ FLe(r.min.y, r.max.y)

Inside(r, R) ==
    /\ FLe(R.min.x, r.min.x) /\ FLe(r.max.x, R.max.x)
    /\ FLe(R.min.y, r.min.y) /\ FLe(r.max.y, R.max.y)

Area(r) == FMul(width(r), height(r))

\* a rect with no interior
Empty(r) == ~(FLt(r.min.x, r.max.x) /\ FLt(r.min.y, r.max.y))

InteriorsDisjoint(a, b) ==
    \/ Area(a) = Zero \/ Area(b) = Zero
    \/ FLe(a.max.x, b.min.x) \/ FLe(b.max.x, a.min.x)
    \/ FLe(a.max.y, b.min.y) \/ FLe(b.max.y, a.min.y)

\* three regions tile R: each is a rect inside R, no two overlap, and together
\* they cover R's area, so there is no gap either
Tiles(R, regions) ==
    /\ \A i \in 1..3 : WellFormed(regions[i]) /\ Inside(regions[i], R)
    /\ \A i \in 1..3 : \A j \in 1..3 : i < j => InteriorsDisjoint(regions[i], regions[j])
    /\ FAdd(Area(regions[1]), FAdd(Area(regions[2]), Area(regions[3]))) = Area(R)

Transpose(r) == Rect(r.min.y, r.min.x, r.max.y, r.max.x)

TransposeUi(ui) ==
    [ui EXCEPT !.drag_delta = [x |-> ui.drag_delta.y, y |-> ui.drag_delta.x]]

ZeroDrag(ui) == [ui EXCEPT !.drag_delta = [x |-> Zero, y |-> Zero]]

\* resolving the latest rect once more, with zero drag, on the stored fraction
ResolvedAgain ==
    IF Horizontal
    THEN hsplit(style, ZeroDrag(last.ui), fraction, last.rect).fraction
    ELSE vsplit(style, ZeroDrag(last.ui), fraction, last.rect).fraction

(***************************************************************************)
(* Properties                                                              *)
(***************************************************************************)
\* C1: as long as every call so far had a rect of positive extent, no call
\* panics in its clamp (lo <= hi) and the fraction stored by the latest call
\* lies in [lo, hi] computed from that call's rect; with extent 400,
\* separator_extra 175, fraction 0.5 and a drag of +200 it is 0.5625.
C1_FractionWithinBounds ==
    ~zeroSeen =>
        /\ last.op # "panic"
        /\ SplitCalled =>
            /\ FLe(BoundLo, BoundHi)
            /\ last.out.min = BoundLo /\ last.out.max = BoundHi
            /\ FLe(BoundLo, fraction) /\ FLe(fraction, BoundHi)
            /\ (/\ LastExtent = F(400) /\ Extra = F(175)
                /\ last.fraction_in = Half /\ LastDelta = F(200))
               => fraction = <<9, 16>>

C1_Witness ==
    /\ SplitCalled /\ ~zeroSeen
    /\ LastExtent = F(400) /\ Extra = F(175)
    /\ last.fraction_in = Half /\ LastDelta = F(200)
    /\ fraction = <<9, 16>>

\* C2 as stated: for an incoming fraction in [0,1] and a rect whose extent
\* exceeds twice separator_extra, the three returned regions tile the rect.
C2_Original ==
    (/\ SplitCalled
     /\ FLe(Zero, last.fraction_in) /\ FLe(last.fraction_in, One)
     /\ FLt(TwiceExtra, LastExtent))
    => Tiles(last.rect, last.out.regions)

\* C2 amended: the same, provided separator_extra is at least half the
\* separator width plus half a device pixel, so that the snapped separator
\* cannot stick out of the rect.
C2_TilesWhenSeparatorFits ==
    (/\ SplitCalled
     /\ FLe(Zero, last.fraction_in) /\ FLe(last.fraction_in, One)
     /\ FLt(TwiceExtra, LastExtent)
     /\ FLe(FAdd(HalfSeparator, HalfPixel), Extra))
    => Tiles(last.rect, last.out.regions)

C2_Witness ==
    /\ SplitCalled
    /\ FLe(Zero, last.fraction_in) /\ FLe(last.fraction_in, One)
    /\ FLt(TwiceExtra, LastExtent)
    /\ FLe(FAdd(HalfSeparator, HalfPixel), Extra)
    /\ LastDelta = F(-200)
    /\ last.rect.min.x = Half
    /\ FLt(Zero, Area(last.out.regions[2]))
    /\ Tiles(last.rect, last.out.regions)

\* C3 as stated: for a rect whose extent is at least twice separator_extra,
\* neither pane is narrower than separator_extra along the split axis.
C3_Original ==
    (/\ SplitCalled /\ ~zeroSeen
     /\ FLe(TwiceExtra, LastExtent))
    => \A p \in Panes : FLe(Extra, AxisExtent(p))

\* C3 amended: it is the separator's centre line that stays separator_extra
\* away from both edges; a pane can be narrower than separator_extra by up to
\* half the separator width plus half a device pixel, and by no more.
C3_PanesKeepExtraLessSeparator ==
    (/\ SplitCalled /\ ~zeroSeen
     /\ FLe(TwiceExtra, LastExtent))
    => /\ \A p \in Panes :
            FLe(FSub(Extra, FAdd(HalfSeparator, HalfPixel)), AxisExtent(p))
       /\ FLe(Extra, FMul(LastExtent, fraction))
       /\ FLe(Extra, FMul(LastExtent, FSub(One, fraction)))

C3_Witness ==
    /\ SplitCalled /\ ~zeroSeen
    /\ FLe(TwiceExtra, LastExtent)
    /\ Extra = F(DEFAULT_SEPARATOR_EXTRA)
    /\ \E p \in Panes : FLt(AxisExtent(p), Extra)

C5_Mirror ==
    (Horizontal /\ ~zeroSeen) =>
        LET v == vsplit(style, TransposeUi(last.ui), last.fraction_in,
                        Transpose(last.rect))
        IN  /\ v.fraction = last.out.fraction
            /\ \A i \in 1..3 : last.out.regions[i] = Transpose(v.regions[i])

\* C9: a call on a rect of zero extent stores a number in [0,1] and returns
\* two empty panes.
C9_ZeroExtentWellDefined ==
    (SplitCalled /\ LastExtent = Zero /\ IsFinite(last.fraction_in))
    => /\ IsFinite(fraction)
       /\ FLe(Zero, fraction) /\ FLe(fraction, One)
       /\ \A p \in Panes : Empty(p)

\* C6: in every tab_title call the close-button region is registered exactly
\* when (active or the header is hovered) and show_close_buttons; the close
\* glyph is drawn in exactly those calls, and the drawing block never unwraps
\* an absent response.
C6_CloseRegionIffVisible ==
    tab.called =>
        LET hovered == contains(tab.out.rect, tab.ui.pointer)
            visible == (tab.active \/ hovered) /\ style.show_close_buttons
            glyph == {i \in 1..Len(tab.out.close.shapes) :
                        tab.out.close.shapes[i].shape = "line_segment"}
        IN  /\ (tab.out.x_res # None) <=> visible
            /\ (Cardinality(glyph) = 2) <=> visible
            /\ (tab.out.close.shapes = <<>>) <=> ~visible
            /\ ~tab.out.close.panicked

C6_Witness ==
    /\ tab.called
    /\ ~tab.active
    /\ contains(tab.out.rect, tab.ui.pointer)
    /\ style.show_close_buttons
    /\ tab.out.x_res # None
    /\ Len(tab.out.close.shapes) = 2

\* C7: a call that registered no close-button region returns close_hovered =
\* close_clicked = FALSE; with show_close_buttons = FALSE that is every call,
\* wherever the pointer is and whatever its button does.
C7_NoRegionNoCloseEvents ==
    tab.called =>
        /\ tab.out.x_res = None
            => ~tab.out.ret.close_hovered /\ ~tab.out.ret.close_clicked
        /\ ~style.show_close_buttons
            => /\ tab.out.x_res = None
               /\ ~tab.out.ret.close_hovered /\ ~tab.out.ret.close_clicked

\* the pointer clicks where the close button of an active tab would be
C7_Witness ==
    /\ tab.called
    /\ ~style.show_close_buttons
    /\ tab.active
    /\ tab.ui.button = "clicked"
    /\ tab.ui.pointer = Some([x |-> F(38), y |-> F(12)])
    /\ tab.galley.size.x = F(20)
    /\ ~tab.out.ret.close_hovered /\ ~tab.out.ret.close_clicked

\* the fields from_egui's documentation lists as overwritten
DocumentedOverwritten ==
    {"selection_color", "tab_bar_background_color", "tab_outline_color",
     "tab_background_color", "separator_color", "border_color",
     "close_tab_background_color", "close_tab_color", "close_tab_active_color"}

\* C8: every field of from_egui's result outside the nine documented ones
\* equals that field of Style::default().
C8_FromEguiOverwritesOnlyDocumented ==
    stage = "from_egui" =>
        \A f \in StyleFields \ DocumentedOverwritten : built[f] = Style_default[f]

\* what a chain of setters should have produced: per field, the argument of
\* the last setter naming it, or the default
Expected == [f \in StyleFields |->
                IF setLog[f] = None THEN Style_default[f] ELSE setLog[f][1]]

\* C10: the builder holds, and build() returns, for each field the value of
\* the last setter applied to it, or the default if none was; so new().build()
\* is Style::default() and setters of different fields commute.
C10_BuilderSetsNamedFieldOnly ==
    /\ stage = "building" => \A f \in StyleFields : builder.style[f] = Expected[f]
    /\ stage = "built" => \A f \in StyleFields : built[f] = Expected[f]

C10_Witness ==
    /\ stage = "built"
    /\ builder.n >= 2
    /\ setLog["close_tab_color"] = Some(Color32("RED"))
    /\ setLog["separator_extra"] = Some(F(3))
    /\ built.close_tab_color = Color32("RED")
    /\ built.close_tab_active_color = Color32("WHITE")
    /\ built.separator_extra = F(3)

====
